---- MODULE Spec2Model ----
(***************************************************************************)
(* State-machine model of the BuildKit metrics agent: the background       *)
(* scrape loop of main.rs (main, scrape_once), the GET /metrics handler    *)
(* next to it, and the reconciler of metrics.rs (scrape_and_record),       *)
(* writing the process-wide metric registry.                               *)
(*                                                                         *)
(* Machine widths are scaled down so that finite-state exploration reaches *)
(* the wrap-around and rounding cases: a u64 counter is CounterBits wide,  *)
(* an i64 size is SizeBits wide and an f64 keeps MantBits significant bits.*)
(* Build references (strings in the program) are the naturals 1..MaxRefs.  *)
(***************************************************************************)
EXTENDS Integers, Sequences, FiniteSets, TLC

\* ---------------------------------------------------------------- bounds
MaxRefs == 2
MaxCompleted == 2
MaxDisk == 2
CounterBits == 3
SizeBits == 4
MantBits == 2
MaxRenders == 2
MaxCalls == 3

\* ------------------------------------------------------ program constants
\* --scrape-interval-secs default, and the initial grace sleep, in seconds.
ScrapeIntervalSecs == 15
GraceSecs == 1

\* ----------------------------------------------------------- Option<T>
None == <<>>
Some(x) == <<x>>
IsSome(o) == o # <<>>
Unwrap(o) == o[1]

\* ------------------------------------------------------------ arithmetic
Pow2(n) == 2 ^ n
CounterMod == Pow2(CounterBits)
SizeMin == 0 - Pow2(SizeBits - 1)
SizeMax == Pow2(SizeBits - 1) - 1

\* i64 arithmetic without overflow checks wraps modulo 2^SizeBits.
WrapI64(x) == ((x - SizeMin) % Pow2(SizeBits)) + SizeMin
InI64(x) == x >= SizeMin /\ x <= SizeMax

\* Number of bits of a positive integer.
RECURSIVE BitLen(_)
BitLen(x) == IF x = 0 THEN 0 ELSE 1 + BitLen(x \div 2)

\* `x as f64` for a non-negative integer: round to nearest, ties to even, at
\* MantBits significant bits.
RoundPos(x) ==
    IF BitLen(x) <= MantBits THEN x
    ELSE LET q == Pow2(BitLen(x) - MantBits)
             lo == (x \div q) * q
             rem == x - lo
         IN IF 2 * rem < q THEN lo
            ELSE IF 2 * rem > q THEN lo + q
            ELSE IF (x \div q) % 2 = 0 THEN lo ELSE lo + q

\* `x as f64` for a signed or unsigned integer.
AsF64(x) == IF x < 0 THEN 0 - RoundPos(0 - x) ELSE RoundPos(x)

\* `x as u64` for a signed step count: sign extension, then reinterpretation.
AsU64(x) == IF x < 0 THEN CounterMod + x ELSE x

\* ------------------------------------------------------------- registry
\* A registry is a partial function from series key to value; a series exists
\* once it has been written.
NoSeries == << >>

InfoKey(v) == <<"buildkit_info", v.version, v.revision>>
WorkersKey == <<"buildkit_workers_total">>
CacheRecordsKey == <<"buildkit_cache_records_total">>
CacheSizeKey == <<"buildkit_cache_size_bytes">>
ByTypeKey(t) == <<"buildkit_cache_size_by_type_bytes", t>>

BuildsTotal == "buildkit_builds_total"
BuildsSucceeded == "buildkit_builds_succeeded_total"
BuildsFailed == "buildkit_builds_failed_total"
CachedSteps == "buildkit_builds_cached_steps_total"
TotalSteps == "buildkit_builds_total_steps_total"
CounterNames == {BuildsTotal, BuildsSucceeded, BuildsFailed, CachedSteps, TotalSteps}

\* Mutant: the gauge adds the value to the one it holds.
GaugeSetAdds(g, k, v) ==
    [x \in (DOMAIN g) \cup {k} |->
        IF x = k THEN v + (IF k \in DOMAIN g THEN g[k] ELSE 0) ELSE g[x]]

\* gauge!(key).set(v)
GaugeSet(g, k, v) == [x \in (DOMAIN g) \cup {k} |-> IF x = k THEN v ELSE g[x]]

\* The value a counter renders; an unregistered counter has counted nothing.
CounterValue(c, name) == IF name \in DOMAIN c THEN c[name] ELSE 0

\* counter!(name).increment(n): registers the series and adds n to the u64 cell
\* with wrap-around (an atomic fetch-add).
CounterIncrement(c, name, n) ==
    [x \in (DOMAIN c) \cup {name} |->
        IF x = name THEN (CounterValue(c, x) + n) % CounterMod ELSE c[x]]

\* ------------------------------------------------------- remote responses
\* Sequences over S of length at most n.
RECURSIVE SeqsUpTo(_, _)
SeqsUpTo(S, n) ==
    IF n = 0 THEN {<< >>}
    ELSE LET shorter == SeqsUpTo(S, n - 1)
         IN shorter \cup {Append(s, x) : s \in {t \in shorter : Len(t) = n - 1}, x \in S}

Refs == 1..MaxRefs
V1 == [version |-> "v1", revision |-> "r1"]
V2 == [version |-> "v2", revision |-> "r1"]
Usage(size, type) == [size |-> size, record_type |-> type]
Build(ref, error, cached, total) ==
    [ref |-> ref, error |-> error, num_cached_steps |-> cached, num_total_steps |-> total]
Failure(code) == Some([code |-> code])
EventTypes == {"Started", "Complete", "Deleted"}
\* The history events that carry no record or one of the given records.
EventsOf(records) == [type : EventTypes, record : {None} \cup {Some(r) : r \in records}]

\* A negative size and the largest i64, which no f64 holds exactly.
Sizes == {0 - 1, SizeMax}
\* A negative step count and positive ones.
StepCounts == {0 - 1, 2}

\* The responses of a small remote system that varies in every call.
SmallInfos == {None, Some(V1)}
SmallWorkers == {1, 2}
SmallDisks == {<< >>, <<Usage(3, "")>>}
SmallBuilds == {Build(r, None, 1, 2) : r \in Refs}

\* One identity, worker list and disk-usage list; builds of every outcome.
OneInfo == {Some(V1)}
OneWorkers == {1}
OneDisk == {<<Usage(3, "snapshot")>>}
OutcomeBuilds == {Build(r, e, 1, 2) : r \in Refs, e \in {None, Failure(0), Failure(1)}}

\* Builds of every step count.
StepBuilds == {Build(r, None, c, t) : r \in Refs, c \in StepCounts, t \in StepCounts}

\* Disk-usage lists of every size and type; one build.
AllDisks == SeqsUpTo({Usage(s, t) : s \in Sizes, t \in {"", "snapshot"}}, MaxDisk)
OneBuild == {Build(1, None, 1, 2)}

\* No identity or one of two; a disk-usage list whose sum overflows next to one
\* whose sum does not.
TwoInfos == {None, Some(V1), Some(V2)}
OverflowDisks == {<<Usage(3, "snapshot")>>, <<Usage(SizeMax, ""), Usage(1, "")>>}

\* Lists of build records as a caller of scrape_and_record may pass them: none,
\* a failed build with a negative step count, the same build twice.
CallBuilds == {<< >>, <<Build(1, Failure(1), 0 - 1, 2)>>,
               <<Build(1, None, 1, 2), Build(1, None, 1, 2)>>}

\* --------------------------------------------------- scrape_and_record math
\* disk.record.iter().map(|r| r.size).sum(): a left fold of i64 additions; with
\* overflow checks compiled in, an overflowing addition panics, otherwise it wraps.
RECURSIVE FoldSum(_, _, _)
FoldSum(s, acc, ovf) ==
    IF s = << >> THEN [value |-> acc, overflowed |-> ovf]
    ELSE LET x == acc + Head(s).size
         IN FoldSum(Tail(s), WrapI64(x), ovf \/ ~InI64(x))
TotalSize(records) == FoldSum(records, 0, FALSE)

\* Mutant: the record type is used as the label as it is.
TypeLabelRaw(r) == r.record_type

\* The by-type label of a disk-usage record.
TypeLabel(r) == IF r.record_type = "" THEN "unknown" ELSE r.record_type

\* The by_type HashMap after the loop over disk.record.
RECURSIVE FoldByType(_, _, _)
FoldByType(s, m, ovf) ==
    IF s = << >> THEN [map |-> m, overflowed |-> ovf]
    ELSE LET t == TypeLabel(Head(s))
             x == (IF t \in DOMAIN m THEN m[t] ELSE 0) + Head(s).size
         IN FoldByType(Tail(s),
                       [k \in (DOMAIN m) \cup {t} |-> IF k = t THEN WrapI64(x) ELSE m[k]],
                       ovf \/ ~InI64(x))

\* Mutant: the map starts with the "unknown" label at zero.
GroupByTypeZeroed(records) == FoldByType(records, [t \in {"unknown"} |-> 0], FALSE)

GroupByType(records) == FoldByType(records, NoSeries, FALSE)

\* Mutant: any error, whatever its code, makes the build a failed one.
IsFailedAnyError(r) == IsSome(r.error)

\* r.error.as_ref().map_or(false, |e| e.code != 0)
IsFailed(r) == IF IsSome(r.error) THEN Unwrap(r.error).code # 0 ELSE FALSE

\* ------------------------------------------------------------------ state
VARIABLES
    pc,              \* position of the spawned scrape-loop task
    timer,           \* duration, in seconds, of the sleep the loop is in (0: none)
    inflight,        \* scrape_once calls started and not yet returned
    result,          \* what the last scrape_once returned: "none", "ok", "err"
    overflow_checks, \* whether the build panics on integer overflow
    tracking,        \* history: whether dropped and noted are kept
    seen_refs,       \* the HashSet behind the mutex
    lock_held,       \* the mutex of seen_refs is locked
    info, workers, disk,   \* responses held by the scrape in progress
    completed,       \* records collected from the history stream, not yet filtered
    new_records,     \* records that passed the filter, not yet counted
    total_size,      \* scrape_and_record's total_size
    by_type,         \* scrape_and_record's by_type entries not yet exported
    gauges, counters,      \* the metric registry
    before,          \* history: registry, seen_refs and noted when the scrape started
    window,          \* history: references of the Complete records of the last scrape
    delivered,       \* history: references of Complete records of successful scrapes
    counted,         \* history: per reference, times it was counted (capped at 2)
    dropped,         \* history: references of Complete records received by failed
                     \* scrapes, until the loop sleeps with them recorded
    noted,           \* history: references that first came in an event of another
                     \* type, until the loop sleeps with them recorded
    reported,        \* history: identities of scrapes whose calls all succeeded
    renders,         \* GET /metrics requests accepted and not yet answered
    served,          \* history: situations of the loop in which a request was answered
    calls            \* direct calls of scrape_and_record: arguments and registry before

vars == <<pc, timer, inflight, result, overflow_checks, tracking, seen_refs,
          lock_held, info, workers, disk, completed, new_records, total_size,
          by_type, gauges, counters, before, window, delivered, counted, dropped,
          noted, reported, renders, served, calls>>

locals == <<info, workers, disk, completed, new_records, total_size, by_type>>
registry == <<gauges, counters>>
history == <<before, window, delivered, counted, dropped, noted, reported>>
callers == <<renders, served, calls>>
settings == <<overflow_checks, tracking>>

\* Positions at which scrape_once awaits the remote system.
RemotePcs == {"connect", "info", "list_workers", "disk_usage", "listen_build_history",
              "message"}
\* Positions inside scrape_and_record.
ReconcilePcs == {"set_info", "set_workers", "sum_sizes", "set_cache_records",
                 "set_cache_size", "group_by_type", "set_by_type", "inc_total",
                 "inc_succeeded", "inc_failed", "inc_cached_steps", "inc_total_steps"}
ScrapingPcs == RemotePcs \cup {"lock", "filter"} \cup ReconcilePcs

Snapshot == [gauges |-> gauges, counters |-> counters, seen_refs |-> seen_refs,
             noted |-> noted]

\* The state once main has installed the recorder and spawned the loop.
Booted ==
    /\ pc = "grace"
    /\ timer = GraceSecs
    /\ inflight = 0
    /\ result = "none"
    /\ overflow_checks \in BOOLEAN
    /\ seen_refs = {}
    /\ lock_held = FALSE
    /\ info = None
    /\ workers = 0
    /\ disk = << >>
    /\ completed = << >>
    /\ new_records = << >>
    /\ total_size = 0
    /\ by_type = NoSeries
    /\ gauges = NoSeries
    /\ counters = NoSeries
    /\ before = [gauges |-> NoSeries, counters |-> NoSeries, seen_refs |-> {},
                 noted |-> {}]
    /\ window = {}
    /\ delivered = {}
    /\ counted = [r \in Refs |-> 0]
    /\ dropped = {}
    /\ noted = {}
    /\ reported = {}
    /\ renders = 0
    /\ served = {}
    /\ calls = << >>

Init == Booted /\ tracking = FALSE
\* The same start, with the histories of unrecorded references kept.
InitTracking == Booted /\ tracking = TRUE

\* The locals of scrape_once and scrape_and_record go out of scope.
DropLocals ==
    /\ info' = None
    /\ workers' = 0
    /\ disk' = << >>
    /\ completed' = << >>
    /\ new_records' = << >>
    /\ total_size' = 0
    /\ by_type' = NoSeries

\* ------------------------------------------------------------ scrape loop
\* Mutant: the loop starts a scrape on every tick, whether or not one is running.
LoopCallsScrapeAnytime == pc # "panicked"

\* The loop calls scrape_once only from a sleep that has elapsed.
LoopCallsScrape == pc \in {"grace", "sleep"}

\* tokio::time::sleep elapses and the loop calls scrape_once.
StartScrape ==
    /\ LoopCallsScrape
    /\ pc' = "connect"
    /\ timer' = 0
    /\ inflight' = inflight + 1
    /\ before' = Snapshot
    /\ window' = {}
    /\ UNCHANGED <<callers, result, settings, seen_refs, lock_held, locals, registry,
                   delivered, counted, dropped, noted, reported>>

\* Mutant: the loop ends at the first failed scrape.
SleepIntervalUnlessFailed ==
    /\ pc = "returned"
    /\ result # "err"
    /\ pc' = "sleep"
    /\ timer' = ScrapeIntervalSecs
    /\ before' = Snapshot
    /\ window' = {}
    /\ dropped' = dropped \ seen_refs
    /\ noted' = noted \ seen_refs
    /\ UNCHANGED <<callers, inflight, result, settings, seen_refs, lock_held, locals,
                   registry, delivered, counted, reported>>

\* `if let Err(e) = ... { warn }`, then the loop sleeps for scrape_interval.
SleepInterval ==
    /\ pc = "returned"
    /\ pc' = "sleep"
    /\ timer' = ScrapeIntervalSecs
    /\ before' = Snapshot
    /\ window' = {}
    /\ dropped' = dropped \ seen_refs
    /\ noted' = noted \ seen_refs
    /\ UNCHANGED <<callers, inflight, result, settings, seen_refs, lock_held, locals,
                   registry, delivered, counted, reported>>

\* ------------------------------------------------------------ scrape_once
\* Mutant: a failed scrape reports that no worker is reachable.
RemoteCallFailsZeroesWorkers ==
    /\ pc \in RemotePcs
    /\ pc' = "returned"
    /\ result' = "err"
    /\ inflight' = inflight - 1
    /\ DropLocals
    /\ dropped' = IF tracking THEN dropped \cup (window \ seen_refs) ELSE dropped
    /\ gauges' = [k \in DOMAIN gauges |-> IF k = <<"buildkit_workers_total">> THEN 0 ELSE gauges[k]]
    /\ UNCHANGED <<callers, timer, settings, seen_refs, lock_held, counters, before,
                   window, delivered, counted, noted, reported>>

\* Mutant: a failed scrape starts the SeenSet afresh.
RemoteCallFailsResetsSeen ==
    /\ pc \in RemotePcs
    /\ pc' = "returned"
    /\ result' = "err"
    /\ inflight' = inflight - 1
    /\ DropLocals
    /\ dropped' = IF tracking THEN dropped \cup (window \ seen_refs) ELSE dropped
    /\ seen_refs' = {}
    /\ UNCHANGED <<callers, timer, settings, lock_held, registry, before, window,
                   delivered, counted, noted, reported>>

\* Mutant: a failed scrape records the references it had received.
RemoteCallFailsMarksWindow ==
    /\ pc \in RemotePcs
    /\ pc' = "returned"
    /\ result' = "err"
    /\ inflight' = inflight - 1
    /\ DropLocals
    /\ dropped' = IF tracking THEN dropped \cup (window \ seen_refs) ELSE dropped
    /\ seen_refs' = seen_refs \cup {r.ref : r \in {completed[i] : i \in DOMAIN completed}}
    /\ UNCHANGED <<callers, timer, settings, lock_held, registry, before, window,
                   delivered, counted, noted, reported>>

\* A remote call (or a stream read) returns an error and `?` returns it.
RemoteCallFails ==
    /\ pc \in RemotePcs
    /\ pc' = "returned"
    /\ result' = "err"
    /\ inflight' = inflight - 1
    /\ DropLocals
    /\ dropped' = IF tracking THEN dropped \cup (window \ seen_refs) ELSE dropped
    /\ UNCHANGED <<callers, timer, settings, seen_refs, lock_held, registry, before,
                   window, delivered, counted, noted, reported>>

Connected ==
    /\ pc = "connect"
    /\ pc' = "info"
    /\ UNCHANGED <<callers, timer, inflight, result, settings, seen_refs, lock_held,
                   locals, registry, history>>

RecvInfo(responses) ==
    /\ pc = "info"
    /\ \E r \in responses : info' = r
    /\ pc' = "list_workers"
    /\ UNCHANGED <<callers, timer, inflight, result, settings, seen_refs, lock_held,
                   workers, disk, completed, new_records, total_size, by_type,
                   registry, history>>

RecvWorkers(responses) ==
    /\ pc = "list_workers"
    /\ \E n \in responses : workers' = n
    /\ pc' = "disk_usage"
    /\ UNCHANGED <<callers, timer, inflight, result, settings, seen_refs, lock_held,
                   info, disk, completed, new_records, total_size, by_type, registry,
                   history>>

RecvDisk(responses) ==
    /\ pc = "disk_usage"
    /\ \E d \in responses : disk' = d
    /\ pc' = "listen_build_history"
    /\ UNCHANGED <<callers, timer, inflight, result, settings, seen_refs, lock_held,
                   info, workers, completed, new_records, total_size, by_type,
                   registry, history>>

StreamOpened ==
    /\ pc = "listen_build_history"
    /\ pc' = "message"
    /\ UNCHANGED <<callers, timer, inflight, result, settings, seen_refs, lock_held,
                   locals, registry, history>>

\* Mutant: every event that carries a record is pushed, whatever its type.
IsCollectedAnyType(e) == IsSome(e.record)

\* The event is pushed to `completed`.
IsCollected(e) == e.type = "Complete" /\ IsSome(e.record)

\* build_stream.message() yields an event.
RecvEvent(events) ==
    /\ pc = "message"
    /\ \E e \in events :
          /\ IsCollected(e) => Len(completed) < MaxCompleted
          /\ completed' = IF IsCollected(e) THEN Append(completed, Unwrap(e.record))
                          ELSE completed
          /\ window' = IF e.type = "Complete" /\ e.record # None
                       THEN window \cup {e.record[1].ref}
                       ELSE window
          /\ noted' = IF tracking /\ e.type # "Complete" /\ e.record # None
                         /\ e.record[1].ref \notin seen_refs \cup window
                      THEN noted \cup {e.record[1].ref}
                      ELSE noted
    /\ UNCHANGED <<callers, pc, timer, inflight, result, settings, seen_refs,
                   lock_held, info, workers, disk, new_records, total_size, by_type,
                   registry, before, delivered, counted, dropped, reported>>

\* build_stream.message() yields None: the window is drained.
StreamEnded ==
    /\ pc = "message"
    /\ pc' = "lock"
    /\ reported' = IF info # None THEN reported \cup {info[1]} ELSE reported
    /\ UNCHANGED <<callers, timer, inflight, result, settings, seen_refs, lock_held,
                   locals, registry, before, window, delivered, counted, dropped,
                   noted>>

\* seen_refs.lock().unwrap()
Lock ==
    /\ pc = "lock"
    /\ ~lock_held
    /\ lock_held' = TRUE
    /\ pc' = "filter"
    /\ UNCHANGED <<callers, timer, inflight, result, settings, seen_refs, locals,
                   registry, history>>

\* Mutant: insert reports whether the value was already present.
InsertReportsPresent(set, x) == [set |-> set \cup {x}, inserted |-> x \in set]
\* Mutant: insert always reports a new value.
InsertAlwaysNew(set, x) == [set |-> set \cup {x}, inserted |-> TRUE]

\* HashSet::insert: the set afterwards, and whether the value was newly inserted.
Insert(set, x) == [set |-> set \cup {x}, inserted |-> x \notin set]

\* Mutant: the filter tests the reference without recording it.
FilterRecordForgets ==
    /\ pc = "filter"
    /\ completed # << >>
    /\ new_records' = IF Head(completed).ref \notin seen_refs
                      THEN Append(new_records, Head(completed)) ELSE new_records
    /\ completed' = Tail(completed)
    /\ UNCHANGED <<callers, pc, timer, inflight, result, settings, seen_refs,
                   lock_held, info, workers, disk, total_size, by_type, registry,
                   history>>

\* One record goes through `.filter(|r| seen.insert(r.ref.clone()))`.
FilterRecord ==
    /\ pc = "filter"
    /\ completed # << >>
    /\ LET r == Head(completed)
           ins == Insert(seen_refs, r.ref)
       IN /\ seen_refs' = ins.set
          /\ new_records' = IF ins.inserted THEN Append(new_records, r) ELSE new_records
    /\ completed' = Tail(completed)
    /\ UNCHANGED <<callers, pc, timer, inflight, result, settings, lock_held, info,
                   workers, disk, total_size, by_type, registry, history>>

\* Mutant: the guard lives until scrape_once returns.
UnlockKeepsGuard ==
    /\ pc = "filter"
    /\ completed = << >>
    /\ pc' = "set_info"
    /\ UNCHANGED <<callers, timer, inflight, result, settings, seen_refs, lock_held,
                   locals, registry, history>>

\* `.collect()` ends, the guard is dropped, and scrape_and_record is called.
Unlock ==
    /\ pc = "filter"
    /\ completed = << >>
    /\ lock_held' = FALSE
    /\ pc' = "set_info"
    /\ UNCHANGED <<callers, timer, inflight, result, settings, seen_refs, locals,
                   registry, history>>

\* ------------------------------------------------------ scrape_and_record
\* Where the loop over `builds` goes next.
BuildsLoopPc(records) == IF records = << >> THEN "return" ELSE "inc_total"
\* Where the loop over `by_type` goes next.
ByTypeLoopPc(m, records) == IF DOMAIN m = {} THEN BuildsLoopPc(records) ELSE "set_by_type"

\* Mutant: without version info the buildkit_info series are removed.
InfoWrittenOrCleared(g, i) ==
    IF IsSome(i) THEN GaugeSet(g, InfoKey(Unwrap(i)), 1)
    ELSE [k \in {x \in DOMAIN g : x[1] # "buildkit_info"} |-> g[k]]

\* Mutant: the series of the reported identity replaces the earlier ones.
InfoWrittenReplaces(g, i) ==
    IF IsSome(i)
    THEN GaugeSet([k \in {x \in DOMAIN g : x[1] # "buildkit_info"} |-> g[k]],
                  InfoKey(Unwrap(i)), 1)
    ELSE g

\* The gauges after the buildkit_info step.
InfoWritten(g, i) == IF IsSome(i) THEN GaugeSet(g, InfoKey(Unwrap(i)), 1) ELSE g

SetInfo ==
    /\ pc = "set_info"
    /\ gauges' = InfoWritten(gauges, info)
    /\ pc' = "set_workers"
    /\ UNCHANGED <<callers, timer, inflight, result, settings, seen_refs, lock_held,
                   locals, counters, history>>

SetWorkers ==
    /\ pc = "set_workers"
    /\ gauges' = GaugeSet(gauges, WorkersKey, AsF64(workers))
    /\ pc' = "sum_sizes"
    /\ UNCHANGED <<callers, timer, inflight, result, settings, seen_refs, lock_held,
                   locals, counters, history>>

\* The task running the loop unwinds: no further scrape is ever started.
Panic ==
    /\ pc' = "panicked"
    /\ inflight' = inflight - 1
    /\ DropLocals
    /\ window' = {}
    /\ UNCHANGED <<callers, timer, result, settings, seen_refs, lock_held, registry,
                   before, delivered, counted, dropped, noted, reported>>

SumSizes ==
    /\ pc = "sum_sizes"
    /\ LET sum == TotalSize(disk)
       IN IF sum.overflowed /\ overflow_checks
          THEN Panic
          ELSE /\ total_size' = sum.value
               /\ pc' = "set_cache_records"
               /\ UNCHANGED <<callers, timer, inflight, result, settings, seen_refs,
                              lock_held, info, workers, disk, completed, new_records,
                              by_type, registry, history>>

SetCacheRecords ==
    /\ pc = "set_cache_records"
    /\ gauges' = GaugeSet(gauges, CacheRecordsKey, AsF64(Len(disk)))
    /\ pc' = "set_cache_size"
    /\ UNCHANGED <<callers, timer, inflight, result, settings, seen_refs, lock_held,
                   locals, counters, history>>

SetCacheSize ==
    /\ pc = "set_cache_size"
    /\ gauges' = GaugeSet(gauges, CacheSizeKey, AsF64(total_size))
    /\ pc' = "group_by_type"
    /\ UNCHANGED <<callers, timer, inflight, result, settings, seen_refs, lock_held,
                   locals, counters, history>>

BuildByType ==
    /\ pc = "group_by_type"
    /\ LET grouped == GroupByType(disk)
       IN IF grouped.overflowed /\ overflow_checks
          THEN Panic
          ELSE /\ by_type' = grouped.map
               /\ pc' = ByTypeLoopPc(grouped.map, new_records)
               /\ UNCHANGED <<callers, timer, inflight, result, settings, seen_refs,
                              lock_held, info, workers, disk, completed, new_records,
                              total_size, registry, history>>

\* One iteration of `for (record_type, size) in by_type`, in the map's own order.
SetByType ==
    /\ pc = "set_by_type"
    /\ \E t \in DOMAIN by_type :
          LET rest == [k \in (DOMAIN by_type) \ {t} |-> by_type[k]]
          IN /\ gauges' = GaugeSet(gauges, ByTypeKey(t), AsF64(by_type[t]))
             /\ by_type' = rest
             /\ pc' = ByTypeLoopPc(rest, new_records)
    /\ UNCHANGED <<callers, timer, inflight, result, settings, seen_refs, lock_held,
                   info, workers, disk, completed, new_records, total_size, counters,
                   history>>

\* Mutant: a failed build is counted as succeeded too.
OutcomeBoth(r) == IF IsFailed(r) THEN <<1, 1>> ELSE <<1, 0>>

\* The increments of one record: (succeeded, failed).
Outcome(r) == IF IsFailed(r) THEN <<0, 1>> ELSE <<1, 0>>

IncTotal ==
    /\ pc = "inc_total"
    /\ counters' = CounterIncrement(counters, BuildsTotal, 1)
    /\ counted' = [counted EXCEPT ![Head(new_records).ref] =
                      IF @ < 2 THEN @ + 1 ELSE @]
    /\ pc' = "inc_succeeded"
    /\ UNCHANGED <<callers, timer, inflight, result, settings, seen_refs, lock_held,
                   locals, gauges, before, window, delivered, dropped, noted,
                   reported>>

IncSucceeded ==
    /\ pc = "inc_succeeded"
    /\ counters' = CounterIncrement(counters, BuildsSucceeded, Outcome(Head(new_records))[1])
    /\ pc' = "inc_failed"
    /\ UNCHANGED <<callers, timer, inflight, result, settings, seen_refs, lock_held,
                   locals, gauges, history>>

IncFailed ==
    /\ pc = "inc_failed"
    /\ counters' = CounterIncrement(counters, BuildsFailed, Outcome(Head(new_records))[2])
    /\ pc' = "inc_cached_steps"
    /\ UNCHANGED <<callers, timer, inflight, result, settings, seen_refs, lock_held,
                   locals, gauges, history>>

IncCachedSteps ==
    /\ pc = "inc_cached_steps"
    /\ counters' = CounterIncrement(counters, CachedSteps,
                                    AsU64(Head(new_records).num_cached_steps))
    /\ pc' = "inc_total_steps"
    /\ UNCHANGED <<callers, timer, inflight, result, settings, seen_refs, lock_held,
                   locals, gauges, history>>

\* The last increment of a record; the loop moves to the next record.
IncTotalSteps ==
    /\ pc = "inc_total_steps"
    /\ counters' = CounterIncrement(counters, TotalSteps,
                                    AsU64(Head(new_records).num_total_steps))
    /\ new_records' = Tail(new_records)
    /\ pc' = BuildsLoopPc(Tail(new_records))
    /\ UNCHANGED <<callers, timer, inflight, result, settings, seen_refs, lock_held,
                   info, workers, disk, completed, total_size, by_type, gauges,
                   history>>

\* scrape_and_record has returned and scrape_once returns Ok(()).
ReturnOk ==
    /\ pc = "return"
    /\ pc' = "returned"
    /\ result' = "ok"
    /\ inflight' = inflight - 1
    /\ DropLocals
    /\ delivered' = delivered \cup window
    /\ UNCHANGED <<callers, timer, settings, seen_refs, lock_held, registry, before,
                   window, counted, dropped, noted, reported>>

\* ------------------------------------------- scrape_and_record called directly
\* A caller passes the four arguments to scrape_and_record, without scrape_once
\* and its filter, once the previous call has returned.
CallReconciler(infos, workerCounts, diskLists, buildLists) ==
    /\ pc \in {"grace", "return"}
    /\ Len(calls) < MaxCalls
    /\ \E i \in infos, w \in workerCounts, d \in diskLists, b \in buildLists :
          /\ info' = i
          /\ workers' = w
          /\ disk' = d
          /\ new_records' = b
          /\ calls' = Append(calls, [args |-> <<i, w, d, b>>,
                                     start |-> [gauges |-> gauges, counters |-> counters]])
    /\ completed' = << >>
    /\ total_size' = 0
    /\ by_type' = NoSeries
    /\ inflight' = 1
    /\ pc' = "set_info"
    /\ UNCHANGED <<timer, result, settings, seen_refs, lock_held, registry, history,
                   renders, served>>

\* ------------------------------------------------------- GET /metrics
\* The situation of the scrape loop, as a request handler finds it.
Situation ==
    IF pc = "panicked" THEN "panicked"
    ELSE IF lock_held THEN "locked"
    ELSE IF pc \in RemotePcs THEN "remote call pending"
    ELSE IF pc \in ReconcilePcs THEN "reconciling"
    ELSE IF result = "err" THEN "after a failed scrape"
    ELSE IF result = "none" THEN "before the first scrape"
    ELSE "between scrapes"

\* axum accepts a request and spawns its handler.
AcceptRender ==
    /\ renders < MaxRenders
    /\ renders' = renders + 1
    /\ UNCHANGED <<pc, timer, inflight, result, settings, seen_refs, lock_held,
                   locals, registry, history, served, calls>>

\* Mutant: the handler locks seen_refs around h.render().
RenderUnderLock ==
    /\ renders > 0
    /\ ~lock_held
    /\ renders' = renders - 1
    /\ served' = served \cup {Situation}
    /\ UNCHANGED <<pc, timer, inflight, result, settings, seen_refs, lock_held,
                   locals, registry, history, calls>>

\* A handler runs h.render(), which only reads the registry, and answers.
Render ==
    /\ renders > 0
    /\ renders' = renders - 1
    /\ served' = served \cup {Situation}
    /\ UNCHANGED <<pc, timer, inflight, result, settings, seen_refs, lock_held,
                   locals, registry, history, calls>>

\* ---------------------------------------------------------- specification
\* The steps of the program against a remote system answering from the given sets.
Scrape(infos, workerCounts, diskLists, builds) ==
    \/ StartScrape
    \/ SleepInterval
    \/ RemoteCallFails
    \/ Connected
    \/ RecvInfo(infos)
    \/ RecvWorkers(workerCounts)
    \/ RecvDisk(diskLists)
    \/ StreamOpened
    \/ RecvEvent(EventsOf(builds))
    \/ StreamEnded
    \/ Lock
    \/ FilterRecord
    \/ Unlock
    \/ SetInfo
    \/ SetWorkers
    \/ SumSizes
    \/ SetCacheRecords
    \/ SetCacheSize
    \/ BuildByType
    \/ SetByType
    \/ IncTotal
    \/ IncSucceeded
    \/ IncFailed
    \/ IncCachedSteps
    \/ IncTotalSteps
    \/ ReturnOk

Next == Scrape(SmallInfos, SmallWorkers, SmallDisks, SmallBuilds)
Spec == Init /\ [][Next]_vars

NextBuilds == Scrape(OneInfo, OneWorkers, OneDisk, OutcomeBuilds)
SpecBuilds == Init /\ [][NextBuilds]_vars

NextSteps == Scrape(OneInfo, OneWorkers, OneDisk, StepBuilds)
SpecSteps == Init /\ [][NextSteps]_vars

NextDisk == Scrape(OneInfo, OneWorkers, AllDisks, OneBuild)
SpecDisk == Init /\ [][NextDisk]_vars

NextInfo == Scrape(TwoInfos, OneWorkers, OverflowDisks, OneBuild)
SpecInfo == Init /\ [][NextInfo]_vars

\* scrape_and_record under a caller that passes it arguments of its choice, the
\* same ones again or others.
NextCalls ==
    \/ CallReconciler(SmallInfos, OneWorkers, OverflowDisks, CallBuilds)
    \/ SetInfo
    \/ SetWorkers
    \/ SumSizes
    \/ SetCacheRecords
    \/ SetCacheSize
    \/ BuildByType
    \/ SetByType
    \/ IncTotal
    \/ IncSucceeded
    \/ IncFailed
    \/ IncCachedSteps
    \/ IncTotalSteps
SpecCalls == Init /\ [][NextCalls]_vars

\* The loop next to the HTTP server.
NextRender ==
    \/ Scrape(OneInfo, OneWorkers, OverflowDisks, OneBuild)
    \/ AcceptRender
    \/ Render
SpecRender == Init /\ [][NextRender]_vars

\* One response of each call and successful builds, with the histories of
\* unrecorded references.
NextTracking == Scrape(OneInfo, OneWorkers, OneDisk, SmallBuilds)
SpecTracking == InitTracking /\ [][NextTracking]_vars

\* A sleep that has elapsed wakes the loop: the timer fires and the runtime polls
\* the task again.
SpecLive == Spec /\ WF_vars(StartScrape) /\ WF_vars(SleepInterval)

TypeOK ==
    /\ pc \in ScrapingPcs \cup {"grace", "sleep", "return", "returned", "panicked"}
    /\ inflight \in 0..1
    /\ seen_refs \subseteq Refs
    /\ \A n \in DOMAIN counters : counters[n] \in 0..(CounterMod - 1)

\* ------------------------------------------------------------------ claims
\* C1: over any sequence of scrapes with overlapping windows, and with any number
\* of Complete events carrying the same reference in one window, each build
\* reference is counted (handed to the reconciler and added to
\* buildkit_builds_total) at most once.
C1_CountedAtMostOnce == \A r \in Refs : counted[r] <= 1

\* A scrape has reconciled a window holding a reference that an earlier scrape
\* had already recorded, next to a reference it counted itself.
C1_Witness ==
    /\ pc = "return"
    /\ \E r \in window : r \in before.seen_refs /\ counted[r] = 1
    /\ \E r \in window : r \notin before.seen_refs /\ counted[r] = 1

\* C2: when a remote call of a scrape fails, every gauge and counter has exactly
\* the value it had when that scrape started.
C2_FailedScrapeWritesNothing ==
    (pc = "returned" /\ result = "err") =>
        (gauges = before.gauges /\ counters = before.counters)

\* A scrape has failed while draining the stream, after it had received a
\* Complete record, and an earlier scrape had exported gauges and counters.
C2_Witness ==
    /\ pc = "returned"
    /\ result = "err"
    /\ window # {}
    /\ WorkersKey \in DOMAIN gauges
    /\ CounterValue(counters, BuildsTotal) > 0

\* C3: no step ever lowers one of the five counters, whatever step counts the
\* build records carry.
C3_CountersNeverDecrease ==
    [][\A n \in CounterNames : CounterValue(counters', n) >= CounterValue(counters, n)]_vars

\* C4: at most one scrape is in progress at any time, and the dedup filter and
\* the reconciler run only inside that one scrape.
C4_OneScrapeAtATime ==
    /\ inflight \in {0, 1}
    /\ (pc \in ScrapingPcs \cup {"return"}) <=> (inflight = 1)
    /\ lock_held => inflight = 1

\* A later scrape is filtering while it is the only scrape in progress.
C4_Witness ==
    /\ pc = "filter"
    /\ inflight = 1
    /\ result # "none"
    /\ completed # << >>

\* C5: every scrape that returns, failed or not, puts the loop to sleep for the
\* normal interval; the sleep ends only by starting the next scrape; and a
\* scrape that has returned is always followed by the start of another one.
C5_LoopGoesOn ==
    /\ [][pc = "returned" => (pc' = "sleep" /\ timer' = ScrapeIntervalSecs)]_vars
    /\ [][pc = "sleep" => (pc' = "connect" /\ timer' = 0)]_vars
    /\ (pc = "returned") ~> (pc = "connect")

\* A scrape starts after the scrape before it has failed.
C5_Witness ==
    /\ pc = "connect"
    /\ result = "err"
    /\ before.gauges # NoSeries

\* C6: the filter's test-and-insert keeps a record and records its reference
\* exactly when the reference is not yet in seen_refs; otherwise it drops the
\* record and leaves seen_refs as it is.
C6_MarkIfNew ==
    [][(pc = "filter" /\ completed # << >>) =>
          IF Head(completed).ref \in seen_refs
          THEN seen_refs' = seen_refs /\ new_records' = new_records
          ELSE /\ seen_refs' = seen_refs \cup {Head(completed).ref}
               /\ new_records' = Append(new_records, Head(completed))]_vars

\* The filter has kept a record and is now presented the same reference again.
C6_Witness ==
    /\ pc = "filter"
    /\ completed # << >>
    /\ new_records # << >>
    /\ Head(completed).ref = new_records[Len(new_records)].ref

\* C7: once a scrape has returned, buildkit_builds_total is the number of
\* distinct references delivered in Complete records of successful scrapes, and
\* these are exactly the references in seen_refs; in every state
\* buildkit_builds_total is at most the size of seen_refs.
C7_TotalIsDistinctRefs ==
    /\ CounterValue(counters, BuildsTotal) <= Cardinality(seen_refs)
    /\ pc \in {"returned", "sleep"} =>
          /\ CounterValue(counters, BuildsTotal) = Cardinality(delivered)
          /\ delivered = seen_refs

\* A successful scrape has returned whose window held references an earlier
\* scrape had counted next to new ones, and every reference is counted.
C7_Witness ==
    /\ pc = "returned"
    /\ result = "ok"
    /\ window \cap before.seen_refs # {}
    /\ window \ before.seen_refs # {}
    /\ CounterValue(counters, BuildsTotal) = MaxRefs

\* What the claim calls a failed build: an error is present and its code is not 0.
HasNonZeroError(r) == r.error # None /\ r.error[1].code # 0

\* C8: for each record the reconciler counts, the succeeded/failed pair of
\* increments adds 1 to failed and nothing to succeeded when the record has an
\* error with a non-zero code, and 1 to succeeded and nothing to failed otherwise;
\* no other step changes either counter.
C8_ExactlyOneOutcome ==
    [][LET succ == CounterValue(counters, BuildsSucceeded)
           fail == CounterValue(counters, BuildsFailed)
           succ2 == CounterValue(counters', BuildsSucceeded)
           fail2 == CounterValue(counters', BuildsFailed)
       IN /\ pc = "inc_succeeded" =>
                /\ fail2 = fail
                /\ succ2 = succ + (IF HasNonZeroError(Head(new_records)) THEN 0 ELSE 1)
          /\ pc = "inc_failed" =>
                /\ succ2 = succ
                /\ fail2 = fail + (IF HasNonZeroError(Head(new_records)) THEN 1 ELSE 0)
          /\ pc \notin {"inc_succeeded", "inc_failed"} => (succ2 = succ /\ fail2 = fail)]_vars

\* A record with an error of code 0 has been counted as succeeded after a record
\* with a non-zero code was counted as failed.
C8_Witness ==
    /\ pc = "inc_cached_steps"
    /\ Head(new_records).error = Failure(0)
    /\ CounterValue(counters, BuildsSucceeded) = 1
    /\ CounterValue(counters, BuildsFailed) = 1

\* The series of one metric name in a registry.
SeriesOf(g, name) == [k \in {x \in DOMAIN g : x[1] = name} |-> g[k]]

\* The sum of the sizes of the records at the given positions.
RECURSIVE SumOfSizes(_, _)
SumOfSizes(records, positions) ==
    IF positions = {} THEN 0
    ELSE LET i == CHOOSE x \in positions : TRUE
         IN records[i].size + SumOfSizes(records, positions \ {i})
TotalOf(records) == SumOfSizes(records, DOMAIN records)

\* C9: a successful scrape without version info leaves the buildkit_info series
\* (which exist, and their values) as they were when the scrape started, while
\* it still writes the other gauges and counts the new builds.
C9_NoInfoNoWrite ==
    (pc = "return" /\ info = None) =>
        /\ SeriesOf(gauges, "buildkit_info") = SeriesOf(before.gauges, "buildkit_info")
        /\ {WorkersKey, CacheRecordsKey, CacheSizeKey} \subseteq DOMAIN gauges
        /\ gauges[WorkersKey] = workers
        /\ gauges[CacheRecordsKey] = Len(disk)
        /\ gauges[CacheSizeKey] = TotalOf(disk)
        /\ CounterValue(counters, BuildsTotal) =
              CounterValue(before.counters, BuildsTotal)
              + Cardinality(window \ before.seen_refs)

\* A scrape without version info has finished: the series an earlier scrape set
\* is still there, and the worker gauge and the build counter have moved.
C9_Witness ==
    /\ pc = "return"
    /\ info = None
    /\ InfoKey(V1) \in DOMAIN gauges
    /\ gauges[InfoKey(V1)] = 1
    /\ WorkersKey \in DOMAIN before.gauges
    /\ gauges[WorkersKey] # before.gauges[WorkersKey]
    /\ CounterValue(counters, BuildsTotal) > CounterValue(before.counters, BuildsTotal)

\* The label the claim gives a disk-usage record.
LabelOf(r) == IF r.record_type = "" THEN "unknown" ELSE r.record_type
LabelsOf(records) == {LabelOf(records[i]) : i \in DOMAIN records}
SumOfLabel(records, l) == SumOfSizes(records, {i \in DOMAIN records : LabelOf(records[i]) = l})

\* The sum of the by-type gauges of the given labels.
RECURSIVE SumOfByType(_, _)
SumOfByType(g, labels) ==
    IF labels = {} THEN 0
    ELSE LET l == CHOOSE x \in labels : TRUE
         IN g[ByTypeKey(l)] + SumOfByType(g, labels \ {l})
ExportedLabels(g) == {k[2] : k \in {x \in DOMAIN g : x[1] = "buildkit_cache_size_by_type_bytes"}}

\* An i64 that an f64 holds exactly.
IsExact(x) == InI64(x) /\ AsF64(x) = x
\* The total and every per-label sum of the records are exact.
SumsAreExact(records) ==
    /\ IsExact(TotalOf(records))
    /\ \A l \in LabelsOf(records) : IsExact(SumOfLabel(records, l))

\* C10 as stated, for the scrapes whose sums are exact: after a successful scrape
\* no series has the empty label, and the by-type gauges of all exported labels
\* sum to buildkit_cache_size_bytes.
C10_AllByTypeSumToTotal ==
    (pc = "return" /\ SumsAreExact(disk)) =>
        /\ "" \notin ExportedLabels(gauges)
        /\ SumOfByType(gauges, ExportedLabels(gauges)) = gauges[CacheSizeKey]

\* C10 as amended: after a successful scrape no series has the empty label, the
\* labels of the scrape's records (empty read as "unknown") are all exported,
\* and, when the total and the per-label sums are exact, each of these gauges is
\* its label's sum and together they sum to buildkit_cache_size_bytes.
C10_ScrapedByTypeSumToTotal ==
    pc = "return" =>
        /\ "" \notin ExportedLabels(gauges)
        /\ LabelsOf(disk) \subseteq ExportedLabels(gauges)
        /\ SumsAreExact(disk) =>
              /\ \A l \in LabelsOf(disk) : gauges[ByTypeKey(l)] = SumOfLabel(disk, l)
              /\ SumOfByType(gauges, LabelsOf(disk)) = gauges[CacheSizeKey]

\* A scrape with exact sums whose records, one of them of empty type, fall under
\* two labels has finished.
C10_Witness ==
    /\ pc = "return"
    /\ SumsAreExact(disk)
    /\ LabelsOf(disk) = {"unknown", "snapshot"}
    /\ gauges[ByTypeKey("unknown")] # 0
    /\ gauges[CacheSizeKey] # gauges[ByTypeKey("unknown")]

\* C13: the lock of the SeenSet is held only while the filter runs, after the
\* stream has been drained and before the reconciler is called: it is never held
\* while a remote call or a stream read is pending, nor inside the reconciler.
C13_LockOnlyAroundFilter ==
    /\ lock_held => pc = "filter"
    /\ pc \in RemotePcs \cup ReconcilePcs => ~lock_held
    /\ pc = "filter" => lock_held

\* The lock is held in the middle of the filter of a scrape that follows one
\* which had recorded a reference.
C13_Witness ==
    /\ lock_held
    /\ pc = "filter"
    /\ completed # << >>
    /\ new_records # << >>
    /\ before.seen_refs # {}

\* C15: the SeenSet is empty at start and no step removes a reference from it.
C15_SeenSetOnlyGrows ==
    /\ seen_refs = {}
    /\ [][seen_refs \subseteq seen_refs']_vars

\* A scrape has failed after receiving a Complete record, and the references an
\* earlier scrape recorded are all still in the SeenSet.
C15_Witness ==
    /\ pc = "returned"
    /\ result = "err"
    /\ window # {}
    /\ seen_refs # {}
    /\ seen_refs = delivered

\* C16: during and after the reconciler, every by-type gauge whose label does
\* not occur in the scrape's disk-usage records (empty read as "unknown") exists
\* with the value it had when the scrape started, and when the reconciler is
\* done the exported labels are those exported before and those of the records.
C16_AbsentLabelsKeepValue ==
    /\ pc \in ReconcilePcs \cup {"return"} =>
          \A l \in ExportedLabels(before.gauges) \ LabelsOf(disk) :
              /\ ByTypeKey(l) \in DOMAIN gauges
              /\ gauges[ByTypeKey(l)] = before.gauges[ByTypeKey(l)]
    /\ pc = "return" =>
          ExportedLabels(gauges) = ExportedLabels(before.gauges) \cup LabelsOf(disk)

\* A scrape whose records are all of type "snapshot" has finished, and the
\* "unknown" gauge an earlier scrape wrote still has its non-zero value.
C16_Witness ==
    /\ pc = "return"
    /\ LabelsOf(disk) = {"snapshot"}
    /\ ByTypeKey("unknown") \in DOMAIN gauges
    /\ gauges[ByTypeKey("unknown")] # 0
    /\ ByTypeKey("snapshot") \in DOMAIN before.gauges
    /\ gauges[ByTypeKey("snapshot")] # before.gauges[ByTypeKey("snapshot")]

\* C17: once the remote calls of a scrape have all succeeded, every step keeps
\* the scrape inside the filter and the reconciler until the reconciler is done,
\* then scrape_once returns Ok and the loop goes to sleep for its next tick.
C17_ScrapeRunsToCompletion ==
    [][/\ pc \in {"lock", "filter"} \cup ReconcilePcs =>
             pc' \in {"lock", "filter", "return"} \cup ReconcilePcs
       /\ pc = "return" => (pc' = "returned" /\ result' = "ok")
       /\ pc = "returned" => pc' = "sleep"]_vars

\* C18: in every state succeeded + failed <= builds_total <= succeeded + failed
\* + 1, and outside the reconciler builds_total = succeeded + failed.
C18_TotalIsSucceededPlusFailed ==
    LET total == CounterValue(counters, BuildsTotal)
        outcomes == CounterValue(counters, BuildsSucceeded)
                    + CounterValue(counters, BuildsFailed)
    IN /\ outcomes <= total
       /\ total <= outcomes + 1
       /\ pc \notin ReconcilePcs => total = outcomes

\* The reconciler is between the increment of builds_total and the increment
\* of failed for a second build, a failed one.
C18_Witness ==
    /\ pc = "inc_failed"
    /\ IsFailed(Head(new_records))
    /\ CounterValue(counters, BuildsTotal) = 2
    /\ CounterValue(counters, BuildsSucceeded) + CounterValue(counters, BuildsFailed) = 1

\* C14: a scrape that fails at a remote call, also after it received Complete
\* records, returns with the SeenSet it started with; a reference it received
\* stays uncounted while it is not recorded, and is counted once by the time a
\* later scrape whose window holds it has returned Ok.
C14_FailedScrapeLosesNoBuild ==
    /\ (pc = "returned" /\ result = "err") =>
          /\ seen_refs = before.seen_refs
          /\ window \ seen_refs \subseteq dropped
    /\ \A r \in dropped \ seen_refs : counted[r] = 0
    /\ (pc = "returned" /\ result = "ok") =>
          \A r \in dropped \cap window : r \in seen_refs /\ counted[r] = 1

\* A scrape has returned Ok and has counted a reference that a failed scrape
\* had received while an earlier reference was already recorded.
C14_Witness ==
    /\ pc = "returned"
    /\ result = "ok"
    /\ before.seen_refs # {}
    /\ \E r \in dropped \cap window : r \notin before.seen_refs /\ counted[r] = 1

\* C20: the records awaiting the filter and the reconciler all came in Complete
\* events, every recorded reference came in such an event, a reference that
\* first came in an event of another type is neither recorded nor counted before
\* a Complete event of the current scrape carries it, and it is counted once by
\* the time a scrape whose window holds it has returned Ok.
C20_OnlyCompleteRecordsCount ==
    /\ \A i \in DOMAIN completed : completed[i].ref \in window
    /\ \A i \in DOMAIN new_records : new_records[i].ref \in window
    /\ seen_refs \subseteq delivered \cup window
    /\ \A r \in noted \ window : r \notin seen_refs /\ counted[r] = 0
    /\ (pc = "returned" /\ result = "ok") =>
          \A r \in noted \cap window : r \in seen_refs /\ counted[r] = 1

\* A scrape has returned Ok and has counted a reference that, when the scrape
\* started, was known from an event of another type only.
C20_Witness ==
    /\ pc = "returned"
    /\ result = "ok"
    /\ \E r \in before.noted \cap window : r \notin before.seen_refs /\ counted[r] = 1

\* The buildkit_info series that read 1.
InfoSeriesAtOne(g) == {k \in DOMAIN g : k[1] = "buildkit_info" /\ g[k] = 1}

\* C19: no step changes or removes a buildkit_info series that reads 1, and,
\* except between the last remote call of a scrape and the buildkit_info step of
\* its reconciler, the series that read 1 are those of the identities received
\* by the scrapes whose remote calls all succeeded, as many as there are such
\* identities.
C19_InfoSeriesAccumulate ==
    /\ [](pc \notin {"lock", "filter", "set_info"} =>
            /\ InfoSeriesAtOne(gauges) = {InfoKey(v) : v \in reported}
            /\ Cardinality(InfoSeriesAtOne(gauges)) = Cardinality(reported))
    /\ [][InfoSeriesAtOne(gauges) \subseteq InfoSeriesAtOne(gauges')]_vars

\* A scrape that received the second identity has finished after scrapes that
\* had received the first one: both series read 1.
C19_Witness ==
    /\ pc = "return"
    /\ info = Some(V2)
    /\ InfoKey(V1) \in DOMAIN before.gauges
    /\ InfoKey(V2) \notin DOMAIN before.gauges
    /\ InfoSeriesAtOne(gauges) = {InfoKey(V1), InfoKey(V2)}
    /\ reported = {V1, V2}

\* C12: in every state of the scrape loop a pending request can be answered
\* and, below the bound on concurrent requests, a further one accepted; a step
\* that accepts or answers a request leaves the registry, the SeenSet, its lock
\* and the position of the loop as they are.
C12_RenderNeverWaits ==
    /\ [](renders > 0 => ENABLED Render)
    /\ [](renders < MaxRenders => ENABLED AcceptRender)
    /\ [][renders' # renders =>
            UNCHANGED <<gauges, counters, seen_refs, lock_held, pc, inflight>>]_vars

\* Requests have been answered in every situation of the loop, and as many
\* requests as the bound allows are pending while the lock is held.
C12_Witness ==
    /\ served = {"before the first scrape", "remote call pending", "locked",
                 "reconciling", "after a failed scrape", "between scrapes"}
    /\ lock_held
    /\ renders = MaxRenders

\* What a counter has gained from one value to another, as a u64 amount.
Gained(from, to, name) ==
    (CounterValue(to, name) - CounterValue(from, name) + CounterMod) % CounterMod

\* C11: when scrape_and_record has returned from a call with the arguments of
\* the call before it, every gauge has the value it had after that earlier call,
\* and every counter has gained the u64 amount it gained in that earlier call.
C11_SameSnapshotTwice ==
    LET n == Len(calls)
    IN (pc = "return" /\ n >= 2 /\ calls[n].args = calls[n - 1].args) =>
          /\ gauges = calls[n].start.gauges
          /\ \A c \in CounterNames :
                Gained(calls[n].start.counters, counters, c)
                = Gained(calls[n - 1].start.counters, calls[n].start.counters, c)

\* The third call has returned: it repeated the arguments of the second, which
\* differed from those of the first and held two build records and a disk-usage
\* record, and both calls moved the registry.
C11_Witness ==
    /\ pc = "return"
    /\ Len(calls) = 3
    /\ calls[3].args = calls[2].args
    /\ calls[2].args # calls[1].args
    /\ calls[1].start.gauges # calls[2].start.gauges
    /\ Len(calls[3].args[4]) = 2
    /\ calls[3].args[3] # << >>
    /\ CounterValue(counters, BuildsTotal) # CounterValue(calls[3].start.counters, BuildsTotal)
    /\ gauges # calls[2].start.gauges

====
